---- MODULE Spec2Model ----
(***************************************************************************)
(* State-machine model of backend_api.py: the TaskManager (job map, bounded *)
(* thread pool, task_wrapper), the file-analysis work body, the             *)
(* conversation map of CurriculumDrivenLearningTutor, and the two           *)
(* event-stream generators (/api/chat and /api/analyze-stream).             *)
(*                                                                         *)
(* Modelling conventions                                                   *)
(*  - Python None is the empty tuple, a present value x is <<x>>.           *)
(*  - A Python str of user/model text is a sequence of one-character        *)
(*    strings; fixed messages of the program are TLA+ strings.              *)
(*  - uuid.uuid4() is the least id not yet in use (a fresh id).             *)
(*  - created_at / updated_at (time.time()) are not modelled.               *)
(*  - Every step is one atomic access to shared state: one update_task      *)
(*    call, one list.append, one write of conversations.json, one yield of  *)
(*    a generator. A `with tutor.lock` block that makes one such access is  *)
(*    one step; add_assistant_message appends and saves inside the lock and *)
(*    is two steps, with the lock held between them.                        *)
(***************************************************************************)
EXTENDS Naturals, Integers, Sequences, FiniteSets, TLC

VARIABLES
    tasks,          \* task_manager.tasks: task id -> task record
    queue,          \* work queue of task_manager.executor (submitted, not started)
    workers,        \* pool threads running task_wrapper: task id -> locals
    conversations,  \* tutor.conversations: conversation id -> list of turns
    chats,          \* running chat.generate generators: request -> locals
    replays,        \* running stream_analysis_result.generate generators
    requests,       \* number of HTTP requests received so far
    file,           \* conversations.json, the file of tutor.conversations_file
    disk,           \* whether the file system takes a write of that file
    lock,           \* tutor.lock: the thread inside a `with` block, or None
    readers         \* running get_task_status handlers: request -> locals

vars == <<tasks, queue, workers, conversations, chats, replays, requests,
          file, disk, lock, readers>>

(***************************************************************************)
(* Bounds of the model                                                     *)
(***************************************************************************)
MaxTasks == 4           \* uploads per run of the job-tracker specifications
MaxRequests == 2        \* HTTP requests per run of the whole-program specifications

(***************************************************************************)
(* Program constants                                                       *)
(***************************************************************************)
max_workers == 3        \* ThreadPoolExecutor(max_workers=3)
chunk_size == 50        \* chunk_size = 50 in stream_analysis_result

PENDING == "pending"
PROCESSING == "processing"
COMPLETED == "completed"
FAILED == "failed"

None == <<>>
Some(x) == <<x>>

\* ids: every request creates at most one task, conversation or generator
Ids(limit) == 1..limit
TaskIds == Ids(IF MaxTasks > MaxRequests THEN MaxTasks ELSE MaxRequests)
RequestIds == Ids(MaxRequests)

(***************************************************************************)
(* Inputs                                                                  *)
(***************************************************************************)
\* response.choices[0].message.content of the blocking model call
ModelReplies == {<<"o", "k">>}

\* str(e) of an exception raised by the model call
GatewayErrors == {"connection error"}

\* what extract_text_from_file returns: None, "", blank text, text
FileContents == {None, Some(<<>>), Some(<<" ">>), Some(<<"h", "i">>)}

\* the 'message' field of a /api/chat request (non-empty, else 400)
UserMessages == {<<"q">>}

\* delta.content of the chunks of a streaming model call ("" is skipped)
FragmentStreams == {<<>>, <<<<"a">>>>, <<<<"a">>, <<>>, <<"b">>>>}

(***************************************************************************)
(* Pure helpers                                                            *)
(***************************************************************************)
\* uuid.uuid4(): a fresh id
uuid4(used) == CHOOSE i \in 1..(Cardinality(used) + 1) : i \notin used /\ \A j \in 1..(i - 1) : j \in used

\* dict.update(updates)
dict_update(d, updates) ==
    [k \in DOMAIN d \cup DOMAIN updates |->
        IF k \in DOMAIN updates THEN updates[k] ELSE d[k]]

\* str.strip() on a sequence of characters
RECURSIVE lstrip(_)
lstrip(s) == IF s # <<>> /\ Head(s) = " " THEN lstrip(Tail(s)) ELSE s
RECURSIVE rstrip(_)
rstrip(s) ==
    IF s # <<>> /\ s[Len(s)] = " " THEN rstrip(SubSeq(s, 1, Len(s) - 1)) ELSE s
strip(s) == rstrip(lstrip(s))

\* f'请分析以下教材内容:\n\n{file_content}' ("please analyse the following
\* course material"); the fixed prefix is one token
AnalysisPrefix == <<"ANALYSE:">>
analysis_request(file_content) == AnalysisPrefix \o file_content

user_turn(text) == [role |-> "user", content |-> text]
assistant_turn(text) == [role |-> "assistant", content |-> text]

(***************************************************************************)
(* TaskManager                                                             *)
(***************************************************************************)
\* TaskManager.create_task: self.tasks[task_id] = {...}
create_task(ts, task_id, task_type, kwargs) ==
    [k \in DOMAIN ts \cup {task_id} |->
        IF k = task_id
        THEN dict_update([id |-> task_id, type |-> task_type, status |-> PENDING,
                          progress |-> 0, result |-> None, error |-> None],
                         kwargs)
        ELSE ts[k]]

\* TaskManager.update_task: merge when the id is known, else nothing
update_task(ts, task_id, updates) ==
    IF task_id \in DOMAIN ts
    THEN [ts EXCEPT ![task_id] = dict_update(@, updates)]
    ELSE ts

\* TaskManager.get_task: self.tasks.get(task_id, None)
get_task(ts, task_id) == IF task_id \in DOMAIN ts THEN Some(ts[task_id]) ELSE None

\* locals of a pool thread that has just taken task_wrapper from the queue
worker_locals(pc, conversation_id, file_content) ==
    [pc |-> pc, conversation_id |-> conversation_id,
     file_content |-> file_content, ai_response |-> None, e |-> None]

\* the closure executor.submit(task_wrapper) puts on the work queue
submitted(task_id, conversation_id, file_content) ==
    [task_id |-> task_id, conversation_id |-> conversation_id,
     file_content |-> file_content]

(***************************************************************************)
(* CurriculumDrivenLearningTutor: the conversation map                     *)
(***************************************************************************)
\* create_conversation: self.conversations[conversation_id] = []
create_conversation(convs, conversation_id) ==
    [k \in DOMAIN convs \cup {conversation_id} |->
        IF k = conversation_id THEN <<>> ELSE convs[k]]

\* self.conversations[conversation_id].append(turn)
append_turn(convs, conversation_id, turn) ==
    [convs EXCEPT ![conversation_id] = Append(@, turn)]

\* mutant: the history is reset without the "not in" test
start_conversation_resets(convs, conversation_id, user_input) ==
    append_turn(create_conversation(convs, conversation_id),
                conversation_id, user_turn(user_input))

\* start_conversation, the part under the lock: get or create, append the user turn
start_conversation(convs, conversation_id, user_input) ==
    append_turn(IF conversation_id \in DOMAIN convs
                THEN convs
                ELSE create_conversation(convs, conversation_id),
                conversation_id, user_turn(user_input))

\* mutant: the reply is stored as a user turn
add_assistant_message_as_user(convs, conversation_id, content) ==
    IF conversation_id \in DOMAIN convs
    THEN append_turn(convs, conversation_id, user_turn(content))
    ELSE convs

\* add_assistant_message: append when the conversation is known, else nothing
add_assistant_message(convs, conversation_id, content) ==
    IF conversation_id \in DOMAIN convs
    THEN append_turn(convs, conversation_id, assistant_turn(content))
    ELSE convs

\* conversations.json: absent, present but not a JSON document, or the
\* document json.dump wrote for a conversation map
absent_file == [exists |-> FALSE]
corrupt_file == [exists |-> TRUE, valid |-> FALSE]
json_file(convs) == [exists |-> TRUE, valid |-> TRUE, conversations |-> convs]

\* the file system when conversations.json is written: the write succeeds,
\* open() raises (the file is left as it was), or json.dump raises after
\* open(..., 'w') has truncated the file
DiskStates == {"ok", "unwritable", "full"}

\* save_conversations: write the whole map; an exception is printed, not raised
save_conversations(convs, old_file, d) ==
    IF d = "ok" THEN json_file(convs)
    ELSE IF d = "unwritable" THEN old_file
    ELSE corrupt_file

\* load_conversations: the map of the file, or {} when the file is absent or
\* json.load raises
load_conversations(f) ==
    IF f.exists
    THEN IF f.valid THEN f.conversations ELSE <<>>
    ELSE <<>>

\* assistant texts of an earlier run of the server: one character more than a
\* replay chunk, and two full chunks
LongText == [i \in 1..(chunk_size + 1) |-> IF i <= chunk_size THEN "x" ELSE "y"]
TwoChunks == [i \in 1..(2 * chunk_size) |-> IF i <= chunk_size THEN "x" ELSE "y"]

\* the conversation map an earlier run has written
StoredConversations ==
    << <<user_turn(<<"q">>), assistant_turn(LongText)>>,
       <<user_turn(<<"q">>), assistant_turn(TwoChunks)>> >>

\* conversations.json as the server finds it when it starts
StoredFiles ==
    {absent_file, corrupt_file, json_file(<<>>), json_file(StoredConversations)}

\* the first start: no conversations.json yet
Init ==
    /\ tasks = <<>>
    /\ queue = <<>>
    /\ workers = <<>>
    /\ file = absent_file
    /\ conversations = load_conversations(file)
    /\ chats = <<>>
    /\ replays = <<>>
    /\ requests = 0
    /\ disk = "ok"
    /\ lock = None
    /\ readers = <<>>

Without(f, k) == [x \in DOMAIN f \ {k} |-> f[x]]
With(f, k, v) == [x \in DOMAIN f \cup {k} |-> IF x = k THEN v ELSE f[x]]

(***************************************************************************)
(* POST /api/upload                                                        *)
(***************************************************************************)
\* upload_file: extract, create the conversation (create_conversation inserts
\* an id no other thread knows and saves, all inside the lock), and when text
\* was extracted create the task and submit it to the pool
upload_file(limit) ==
    \E file_content \in FileContents :
        /\ requests < limit
        /\ requests' = requests + 1
        /\ lock = None
        /\ LET conversation_id == uuid4(DOMAIN conversations)
               has_content == file_content # None /\ strip(file_content[1]) # <<>>
           IN  /\ conversations' = create_conversation(conversations, conversation_id)
               /\ file' = save_conversations(conversations', file, disk)
               /\ IF has_content
                  THEN LET task_id == uuid4(DOMAIN tasks)
                          IN  /\ tasks' = create_task(tasks, task_id, "file_analysis",
                                               [conversation_id |-> conversation_id])
                              /\ queue' = Append(queue,
                                     submitted(task_id, conversation_id, file_content[1]))
                  ELSE UNCHANGED <<tasks, queue>>
        /\ UNCHANGED <<workers, chats, replays, disk, lock, readers>>

(***************************************************************************)
(* The pool: ThreadPoolExecutor(max_workers=3)                             *)
(***************************************************************************)
\* mutant: a saturated pool rejects the submitted work instead of queueing it
executor_dispatch_rejecting ==
    /\ queue # <<>>
    /\ IF Cardinality(DOMAIN workers) < max_workers
       THEN LET job == Head(queue)
            IN  workers' = With(workers, job.task_id,
                    worker_locals("start", job.conversation_id, job.file_content))
       ELSE UNCHANGED workers
    /\ queue' = Tail(queue)
    /\ UNCHANGED <<tasks, conversations, chats, replays, requests, file, disk, lock, readers>>

\* mutant: a thread per submitted task, without the max_workers limit
executor_dispatch_unbounded ==
    /\ queue # <<>>
    /\ LET job == Head(queue)
       IN  workers' = With(workers, job.task_id,
                           worker_locals("start", job.conversation_id, job.file_content))
    /\ queue' = Tail(queue)
    /\ UNCHANGED <<tasks, conversations, chats, replays, requests, file, disk, lock, readers>>

\* a pool thread takes the oldest submitted task_wrapper
executor_dispatch ==
    /\ queue # <<>>
    /\ Cardinality(DOMAIN workers) < max_workers
    /\ LET job == Head(queue)
       IN  workers' = With(workers, job.task_id,
                           worker_locals("start", job.conversation_id, job.file_content))
    /\ queue' = Tail(queue)
    /\ UNCHANGED <<tasks, conversations, chats, replays, requests, file, disk, lock, readers>>

Goto(t, pc) == [workers EXCEPT ![t].pc = pc]

\* task_wrapper: self.update_task(task_id, status=PROCESSING, progress=10)
task_wrapper_start(t) ==
    /\ t \in DOMAIN workers /\ workers[t].pc = "start"
    /\ tasks' = update_task(tasks, t, [status |-> PROCESSING, progress |-> 10])
    /\ workers' = Goto(t, "progress30")
    /\ UNCHANGED <<queue, conversations, chats, replays, requests, file, disk, lock, readers>>

\* mutant: the work body starts its progress below the wrapper's
analyze_progress30_restarts(t) ==
    /\ t \in DOMAIN workers /\ workers[t].pc = "progress30"
    /\ tasks' = update_task(tasks, t, [progress |-> 5, status |-> PROCESSING])
    /\ workers' = Goto(t, "append_user")
    /\ UNCHANGED <<queue, conversations, chats, replays, requests, file, disk, lock, readers>>

\* analyze_file_content_async: update_task(task_id, progress=30, status=PROCESSING)
analyze_progress30(t) ==
    /\ t \in DOMAIN workers /\ workers[t].pc = "progress30"
    /\ tasks' = update_task(tasks, t, [progress |-> 30, status |-> PROCESSING])
    /\ workers' = Goto(t, "append_user")
    /\ UNCHANGED <<queue, conversations, chats, replays, requests, file, disk, lock, readers>>

\* analyze_file_content_async: with tutor.lock: conversations[id].append(user turn)
\* (a KeyError when the conversation is absent goes to the except clauses)
analyze_append_user(t) ==
    /\ t \in DOMAIN workers /\ workers[t].pc = "append_user"
    /\ lock = None
    /\ LET c == workers[t].conversation_id
       IN  IF c \in DOMAIN conversations
           THEN /\ conversations' = append_turn(conversations, c,
                                        user_turn(analysis_request(workers[t].file_content)))
                /\ workers' = Goto(t, "progress50")
           ELSE /\ workers' = [workers EXCEPT ![t].pc = "except",
                                              ![t].e = Some("KeyError")]
                /\ UNCHANGED conversations
    /\ UNCHANGED <<tasks, queue, chats, replays, requests, file, disk, lock, readers>>

\* analyze_file_content_async: update_task(task_id, progress=50)
analyze_progress50(t) ==
    /\ t \in DOMAIN workers /\ workers[t].pc = "progress50"
    /\ tasks' = update_task(tasks, t, [progress |-> 50])
    /\ workers' = Goto(t, "progress70")
    /\ UNCHANGED <<queue, conversations, chats, replays, requests, file, disk, lock, readers>>

\* analyze_file_content_async: build the messages, update_task(task_id, progress=70)
analyze_progress70(t) ==
    /\ t \in DOMAIN workers /\ workers[t].pc = "progress70"
    /\ tasks' = update_task(tasks, t, [progress |-> 70])
    /\ workers' = Goto(t, "call")
    /\ UNCHANGED <<queue, conversations, chats, replays, requests, file, disk, lock, readers>>

\* analyze_file_content_async: the blocking model call returns a reply or raises
analyze_call(t) ==
    /\ t \in DOMAIN workers /\ workers[t].pc = "call"
    /\ \/ \E reply \in ModelReplies :
              workers' = [workers EXCEPT ![t].pc = "progress90",
                                         ![t].ai_response = Some(reply)]
       \/ \E err \in GatewayErrors :
              workers' = [workers EXCEPT ![t].pc = "except", ![t].e = Some(err)]
    /\ UNCHANGED <<tasks, queue, conversations, chats, replays, requests, file, disk, lock, readers>>

\* analyze_file_content_async: update_task(task_id, progress=90)
analyze_progress90(t) ==
    /\ t \in DOMAIN workers /\ workers[t].pc = "progress90"
    /\ tasks' = update_task(tasks, t, [progress |-> 90])
    /\ workers' = Goto(t, "add_assistant")
    /\ UNCHANGED <<queue, conversations, chats, replays, requests, file, disk, lock, readers>>

\* mutant: the work body returns its result without storing the reply
analyze_add_assistant_skipped(t) ==
    /\ t \in DOMAIN workers /\ workers[t].pc = "add_assistant"
    /\ workers' = Goto(t, "return")
    /\ UNCHANGED <<tasks, queue, conversations, chats, replays, requests,
                   file, disk, lock, readers>>

\* analyze_file_content_async: tutor.add_assistant_message(conversation_id,
\* ai_response), first part: take the lock and append when the conversation is
\* known (the lock is released at once when it is not)
analyze_add_assistant(t) ==
    /\ t \in DOMAIN workers /\ workers[t].pc = "add_assistant"
    /\ lock = None
    /\ conversations' = add_assistant_message(conversations, workers[t].conversation_id,
                                              workers[t].ai_response[1])
    /\ IF workers[t].conversation_id \in DOMAIN conversations
       THEN lock' = Some(t) /\ workers' = Goto(t, "save_assistant")
       ELSE lock' = None /\ workers' = Goto(t, "return")
    /\ UNCHANGED <<tasks, queue, chats, replays, requests, file, disk, readers>>

\* mutant: a failed write raises out of save_conversations
analyze_save_assistant_raises(t) ==
    /\ t \in DOMAIN workers /\ workers[t].pc = "save_assistant"
    /\ lock = Some(t)
    /\ file' = save_conversations(conversations, file, disk)
    /\ lock' = None
    /\ workers' = IF disk = "ok"
                  THEN Goto(t, "return")
                  ELSE [workers EXCEPT ![t].pc = "except", ![t].e = Some("OSError")]
    /\ UNCHANGED <<tasks, queue, conversations, chats, replays, requests, disk, readers>>

\* add_assistant_message, second part: self.save_conversations(), still inside
\* the lock, which is then released
analyze_save_assistant(t) ==
    /\ t \in DOMAIN workers /\ workers[t].pc = "save_assistant"
    /\ lock = Some(t)
    /\ file' = save_conversations(conversations, file, disk)
    /\ lock' = None
    /\ workers' = Goto(t, "return")
    /\ UNCHANGED <<tasks, queue, conversations, chats, replays, requests, disk, readers>>

\* the value analyze_file_content_async returns
analysis_result(w) ==
    [conversation_id |-> w.conversation_id, ai_response |-> w.ai_response[1]]

\* mutant: the try block raises after the completed update, so the except
\* clause runs on a completed job
task_wrapper_completed_then_raises(t) ==
    /\ t \in DOMAIN workers /\ workers[t].pc = "return"
    /\ tasks' = update_task(tasks, t, [status |-> COMPLETED, progress |-> 100,
                                       result |-> Some(analysis_result(workers[t]))])
    /\ workers' = [workers EXCEPT ![t].pc = "except", ![t].e = Some("late")]
    /\ UNCHANGED <<queue, conversations, chats, replays, requests, file, disk, lock, readers>>

\* task_wrapper: func returned; update_task(COMPLETED, progress=100, result=result)
task_wrapper_completed(t) ==
    /\ t \in DOMAIN workers /\ workers[t].pc = "return"
    /\ tasks' = update_task(tasks, t, [status |-> COMPLETED, progress |-> 100,
                                       result |-> Some(analysis_result(workers[t]))])
    /\ workers' = Without(workers, t)
    /\ UNCHANGED <<queue, conversations, chats, replays, requests, file, disk, lock, readers>>

\* mutant: the except clause does not record the error
task_wrapper_failed_no_error(t) ==
    /\ t \in DOMAIN workers /\ workers[t].pc = "except"
    /\ tasks' = update_task(tasks, t, [status |-> FAILED, progress |-> 0])
    /\ workers' = Without(workers, t)
    /\ UNCHANGED <<queue, conversations, chats, replays, requests, file, disk, lock, readers>>

\* mutant: the exception ends the pool thread, which keeps its place in the pool
task_wrapper_failed_kills_thread(t) ==
    /\ t \in DOMAIN workers /\ workers[t].pc = "except"
    /\ tasks' = update_task(tasks, t, [status |-> FAILED, progress |-> 0,
                                       error |-> workers[t].e])
    /\ workers' = Goto(t, "dead")
    /\ UNCHANGED <<queue, conversations, chats, replays, requests, file, disk, lock, readers>>

\* task_wrapper: except Exception as e: update_task(FAILED, progress=0,
\* error=str(e)); raise e, which the executor keeps in the future: the pool
\* thread is free for the next submitted task
task_wrapper_failed(t) ==
    /\ t \in DOMAIN workers /\ workers[t].pc = "except"
    /\ tasks' = update_task(tasks, t, [status |-> FAILED, progress |-> 0,
                                       error |-> workers[t].e])
    /\ workers' = Without(workers, t)
    /\ UNCHANGED <<queue, conversations, chats, replays, requests, file, disk, lock, readers>>

\* one step of the pool thread that runs task t
Worker(t) ==
    \/ task_wrapper_start(t)
    \/ analyze_progress30(t)
    \/ analyze_append_user(t)
    \/ analyze_progress50(t)
    \/ analyze_progress70(t)
    \/ analyze_call(t)
    \/ analyze_progress90(t)
    \/ analyze_add_assistant(t)
    \/ analyze_save_assistant(t)
    \/ task_wrapper_completed(t)
    \/ task_wrapper_failed(t)

\* the conversation id of a request: any id the server has issued, or one it
\* has not (every unknown id behaves alike, and uuid4 never issues it later
\* while the request that names it still reads it as unknown)
ClientConversationIds == DOMAIN conversations \cup {uuid4(DOMAIN conversations)}

(***************************************************************************)
(* POST /api/new-conversation                                              *)
(***************************************************************************)
new_conversation ==
    /\ requests < MaxRequests
    /\ requests' = requests + 1
    /\ lock = None
    /\ conversations' = create_conversation(conversations, uuid4(DOMAIN conversations))
    /\ file' = save_conversations(conversations', file, disk)
    /\ UNCHANGED <<tasks, queue, workers, chats, replays, disk, lock, readers>>

(***************************************************************************)
(* POST /api/chat: chat.generate, the live relay                           *)
(***************************************************************************)
\* f"调用模型失败: {str(e)}" ("model call failed"), returned by start_conversation
call_failed(err) == "model call failed: " \o err

content_chunk(text) == [content |-> text]
error_chunk(message) == [error |-> message]
done_chunk == [done |-> TRUE]

chat_locals(conversation_id, pc) ==
    [conversation_id |-> conversation_id, pc |-> pc, response |-> <<>>,
     full_response |-> <<>>, out |-> <<>>]

\* the request arrives with both fields present; generate() starts and
\* start_conversation appends the user turn under the lock
chat_start(r) ==
    /\ requests < MaxRequests
    /\ requests' = requests + 1
    /\ r = uuid4(DOMAIN chats)
    /\ lock = None
    /\ \E conversation_id \in ClientConversationIds, user_message \in UserMessages :
          /\ conversations' = start_conversation(conversations, conversation_id,
                                                  user_message)
          /\ chats' = With(chats, r, chat_locals(conversation_id, "call"))
    /\ UNCHANGED <<tasks, queue, workers, replays, file, disk, lock, readers>>

\* mutant: a failed model call takes the last turn off the conversation
chat_call_rolls_back(r) ==
    /\ r \in DOMAIN chats /\ chats[r].pc = "call"
    /\ \/ /\ \E fragments \in FragmentStreams :
                chats' = [chats EXCEPT ![r].pc = "iterate", ![r].response = fragments]
          /\ UNCHANGED conversations
       \/ /\ \E err \in GatewayErrors :
                chats' = [chats EXCEPT ![r].pc = "closed",
                             ![r].out = Append(@, error_chunk(call_failed(err)))]
          /\ conversations' = [conversations EXCEPT ![chats[r].conversation_id] =
                                  SubSeq(@, 1, Len(@) - 1)]
    /\ UNCHANGED <<tasks, queue, workers, replays, requests, file, disk, lock, readers>>

\* start_conversation, after the lock: the streaming model call returns a
\* stream, or raises and the error string is returned, which generate()
\* yields as an error chunk before it returns
chat_call(r) ==
    /\ r \in DOMAIN chats /\ chats[r].pc = "call"
    /\ \/ \E fragments \in FragmentStreams :
              chats' = [chats EXCEPT ![r].pc = "iterate", ![r].response = fragments]
       \/ \E err \in GatewayErrors :
              chats' = [chats EXCEPT ![r].pc = "closed",
                           ![r].out = Append(@, error_chunk(call_failed(err)))]
    /\ UNCHANGED <<tasks, queue, workers, conversations, replays, requests, file, disk, lock, readers>>

\* mutant: full_response = content instead of full_response += content
chat_iterate_overwrites(r) ==
    /\ r \in DOMAIN chats /\ chats[r].pc = "iterate"
    /\ \/ /\ chats[r].response # <<>>
          /\ LET content == Head(chats[r].response)
             IN  chats' = IF content # <<>>
                          THEN [chats EXCEPT
                                  ![r].response = Tail(@),
                                  ![r].full_response = content,
                                  ![r].out = Append(@, content_chunk(content))]
                          ELSE [chats EXCEPT ![r].response = Tail(@)]
       \/ /\ chats[r].response = <<>>
          /\ chats' = [chats EXCEPT ![r].pc = "append"]
       \/ chats' = [chats EXCEPT ![r].pc = "raised"]
    /\ UNCHANGED <<tasks, queue, workers, conversations, replays, requests, file, disk, lock, readers>>

\* for chunk in response: a fragment (yielded when non-empty), the end of the
\* stream, or an exception raised by the stream, which ends the generator
chat_iterate(r) ==
    /\ r \in DOMAIN chats /\ chats[r].pc = "iterate"
    /\ \/ /\ chats[r].response # <<>>
          /\ LET content == Head(chats[r].response)
             IN  chats' = IF content # <<>>
                          THEN [chats EXCEPT
                                  ![r].response = Tail(@),
                                  ![r].full_response = @ \o content,
                                  ![r].out = Append(@, content_chunk(content))]
                          ELSE [chats EXCEPT ![r].response = Tail(@)]
       \/ /\ chats[r].response = <<>>
          /\ chats' = [chats EXCEPT ![r].pc = "append"]
       \/ chats' = [chats EXCEPT ![r].pc = "raised"]
    /\ UNCHANGED <<tasks, queue, workers, conversations, replays, requests, file, disk, lock, readers>>

\* tutor.conversations[conversation_id].append(assistant turn), without the lock
chat_append(r) ==
    /\ r \in DOMAIN chats /\ chats[r].pc = "append"
    /\ conversations' = append_turn(conversations, chats[r].conversation_id,
                                    assistant_turn(chats[r].full_response))
    /\ chats' = [chats EXCEPT ![r].pc = "save"]
    /\ UNCHANGED <<tasks, queue, workers, replays, requests, file, disk, lock, readers>>

\* tutor.save_conversations(), without the lock
chat_save(r) ==
    /\ r \in DOMAIN chats /\ chats[r].pc = "save"
    /\ file' = save_conversations(conversations, file, disk)
    /\ chats' = [chats EXCEPT ![r].pc = "done"]
    /\ UNCHANGED <<tasks, queue, workers, conversations, replays, requests, disk, lock, readers>>

\* yield the done chunk; the generator returns
chat_done(r) ==
    /\ r \in DOMAIN chats /\ chats[r].pc = "done"
    /\ chats' = [chats EXCEPT ![r].pc = "closed", ![r].out = Append(@, done_chunk)]
    /\ UNCHANGED <<tasks, queue, workers, conversations, replays, requests, file, disk, lock, readers>>

Chat(r) ==
    \/ chat_start(r)
    \/ chat_call(r)
    \/ chat_iterate(r)
    \/ chat_append(r)
    \/ chat_save(r)
    \/ chat_done(r)

(***************************************************************************)
(* GET /api/analyze-stream/<conversation_id>: the replay relay             *)
(***************************************************************************)
ErrConversationAbsent == "conversation does not exist"   \* '对话不存在'
ErrNoResult == "no analysis result yet"                  \* '暂无分析结果'
ErrNoAssistant == "no AI reply yet"                      \* '暂无AI回复'

\* mutant: the scan runs forward and stops at the first assistant message
RECURSIVE scan_forward(_, _)
scan_forward(messages, i) ==
    IF i > Len(messages) THEN None
    ELSE IF messages[i].role = "assistant" THEN Some(messages[i])
    ELSE scan_forward(messages, i + 1)
first_assistant_message(messages) == scan_forward(messages, 1)

\* for msg in reversed(messages): if msg['role'] == 'assistant': ... break
RECURSIVE scan_reversed(_, _)
scan_reversed(messages, i) ==
    IF i = 0 THEN None
    ELSE IF messages[i].role = "assistant" THEN Some(messages[i])
    ELSE scan_reversed(messages, i - 1)
last_assistant_message(messages) == scan_reversed(messages, Len(messages))

\* content[i:i + chunk_size], i counted from 0
slice(content, i, size) ==
    SubSeq(content, i + 1, IF i + size < Len(content) THEN i + size ELSE Len(content))

replay_locals(conversation_id, pc, out) ==
    [conversation_id |-> conversation_id, pc |-> pc, content |-> <<>>, i |-> 0,
     out |-> out]

\* generate() starts: if conversation_id not in tutor.conversations
replay_start(r) ==
    /\ requests < MaxRequests
    /\ requests' = requests + 1
    /\ r = uuid4(DOMAIN replays)
    /\ \E conversation_id \in ClientConversationIds :
          replays' = With(replays, r,
              IF conversation_id \notin DOMAIN conversations
              THEN replay_locals(conversation_id, "closed",
                                 <<error_chunk(ErrConversationAbsent)>>)
              ELSE replay_locals(conversation_id, "messages", <<>>))
    /\ UNCHANGED <<tasks, queue, workers, conversations, chats, file, disk, lock, readers>>

\* mutant: the return after the "no result" error chunk is missing
replay_messages_falls_through(r) ==
    /\ r \in DOMAIN replays /\ replays[r].pc = "messages"
    /\ replays' = IF conversations[replays[r].conversation_id] = <<>>
                  THEN [replays EXCEPT ![r].pc = "scan",
                                       ![r].out = Append(@, error_chunk(ErrNoResult))]
                  ELSE [replays EXCEPT ![r].pc = "scan"]
    /\ UNCHANGED <<tasks, queue, workers, conversations, chats, requests, file, disk, lock, readers>>

\* messages = tutor.conversations[conversation_id]; if not messages
replay_messages(r) ==
    /\ r \in DOMAIN replays /\ replays[r].pc = "messages"
    /\ replays' = IF conversations[replays[r].conversation_id] = <<>>
                  THEN [replays EXCEPT ![r].pc = "closed",
                                       ![r].out = Append(@, error_chunk(ErrNoResult))]
                  ELSE [replays EXCEPT ![r].pc = "scan"]
    /\ UNCHANGED <<tasks, queue, workers, conversations, chats, requests, file, disk, lock, readers>>

\* the reversed scan for the last assistant message
replay_scan(r) ==
    /\ r \in DOMAIN replays /\ replays[r].pc = "scan"
    /\ LET found == last_assistant_message(conversations[replays[r].conversation_id])
       IN  replays' = IF found = None
                      THEN [replays EXCEPT ![r].pc = "closed",
                                  ![r].out = Append(@, error_chunk(ErrNoAssistant))]
                      ELSE [replays EXCEPT ![r].pc = "emit",
                                           ![r].content = found[1].content]
    /\ UNCHANGED <<tasks, queue, workers, conversations, chats, requests, file, disk, lock, readers>>

\* for i in range(0, len(content), chunk_size): yield the chunk; then yield done
replay_emit(r) ==
    /\ r \in DOMAIN replays /\ replays[r].pc = "emit"
    /\ replays' = IF replays[r].i < Len(replays[r].content)
                  THEN [replays EXCEPT
                          ![r].i = @ + chunk_size,
                          ![r].out = Append(@, content_chunk(
                              slice(replays[r].content, replays[r].i, chunk_size)))]
                  ELSE [replays EXCEPT ![r].pc = "closed",
                                       ![r].out = Append(@, done_chunk)]
    /\ UNCHANGED <<tasks, queue, workers, conversations, chats, requests, file, disk, lock, readers>>

Replay(r) ==
    \/ replay_start(r)
    \/ replay_messages(r)
    \/ replay_scan(r)
    \/ replay_emit(r)

(***************************************************************************)
(* GET /api/task/<task_id>                                                 *)
(***************************************************************************)
\* the task id of a request: an id the server has issued, or one it has not
ClientTaskIds == DOMAIN tasks \cup {uuid4(DOMAIN tasks)}

ErrTaskAbsent == "task does not exist"                   \* '任务不存在'

\* locals of get_task_status. The local `task` is the object get_task
\* returned, which is the dict held in self.tasks and not a copy: it is kept as
\* the id of that record, and reading it reads tasks[task_id].
status_locals(task_id, pc, response) ==
    [task_id |-> task_id, pc |-> pc, task_info |-> None, response |-> response]

\* task = task_manager.get_task(task_id); if not task: 404
get_task_status_get(r) ==
    /\ requests < MaxRequests
    /\ requests' = requests + 1
    /\ r = uuid4(DOMAIN readers)
    /\ \E task_id \in ClientTaskIds :
          readers' = With(readers, r,
              IF get_task(tasks, task_id) = None
              THEN status_locals(task_id, "closed", Some([error |-> ErrTaskAbsent]))
              ELSE status_locals(task_id, "copy", None))
    /\ UNCHANGED <<tasks, queue, workers, conversations, chats, replays,
                   file, disk, lock>>

\* task_info = dict(task): a copy of the record as it is now
get_task_status_copy(r) ==
    /\ r \in DOMAIN readers /\ readers[r].pc = "copy"
    /\ readers' = [readers EXCEPT ![r].pc = "value",
                                  ![r].task_info = Some(tasks[readers[r].task_id])]
    /\ UNCHANGED <<tasks, queue, workers, conversations, chats, replays, requests,
                   file, disk, lock>>

\* task_info['status'] = task['status'].value (the enum's value is its
\* string), read from the record as it is now; return jsonify(task_info)
get_task_status_value(r) ==
    /\ r \in DOMAIN readers /\ readers[r].pc = "value"
    /\ LET task_info == dict_update(readers[r].task_info[1],
                             [status |-> tasks[readers[r].task_id].status])
       IN  readers' = [readers EXCEPT ![r].pc = "closed",
                                      ![r].task_info = Some(task_info),
                                      ![r].response = Some(task_info)]
    /\ UNCHANGED <<tasks, queue, workers, conversations, chats, replays, requests,
                   file, disk, lock>>

get_task_status(r) ==
    \/ get_task_status_get(r)
    \/ get_task_status_copy(r)
    \/ get_task_status_value(r)

(***************************************************************************)
(* Specifications                                                          *)
(***************************************************************************)
\* the routes that write or stream conversations, and the pool
Next ==
    \/ upload_file(MaxRequests)
    \/ new_conversation
    \/ executor_dispatch
    \/ \E t \in TaskIds : Worker(t)
    \/ \E r \in RequestIds : Chat(r)
    \/ \E r \in RequestIds : Replay(r)

Spec == Init /\ [][Next]_vars

\* the job tracker alone, with more jobs than pool threads
JobsNext ==
    \/ upload_file(MaxTasks)
    \/ executor_dispatch
    \/ \E t \in TaskIds : Worker(t)

SpecJobs == Init /\ [][JobsNext]_vars

\* Pool threads are scheduled by the operating system and each step of
\* task_wrapper terminates (the model call returns or raises): while some pool
\* thread can take a step, or queued work can be taken, the pool does not stand
\* still for ever.
PoolStep == executor_dispatch \/ \E t \in TaskIds : Worker(t)
PoolFairness == WF_vars(PoolStep)

FairSpecJobs == SpecJobs /\ PoolFairness
FairSpec == Spec /\ PoolFairness

\* TaskManager used by any caller: create_task may name an id already in the map
create_task_existing(t) ==
    /\ t \in DOMAIN tasks
    /\ tasks' = create_task(tasks, t, "file_analysis",
                            [conversation_id |-> tasks[t].conversation_id])
    /\ UNCHANGED <<queue, workers, conversations, chats, replays, requests, file, disk, lock, readers>>

TaskManagerNext ==
    \/ upload_file(MaxRequests)
    \/ executor_dispatch
    \/ \E t \in TaskIds : Worker(t)
    \/ \E t \in TaskIds : create_task_existing(t)

SpecTaskManager == Init /\ [][TaskManagerNext]_vars

\* the job tracker and the clients that poll it
StatusNext ==
    \/ upload_file(MaxRequests)
    \/ executor_dispatch
    \/ \E t \in TaskIds : Worker(t)
    \/ \E r \in RequestIds : get_task_status(r)

SpecStatus == Init /\ [][StatusNext]_vars

\* a start of the server on the file an earlier run has left
InitStore ==
    /\ tasks = <<>>
    /\ queue = <<>>
    /\ workers = <<>>
    /\ file \in StoredFiles
    /\ conversations = load_conversations(file)
    /\ chats = <<>>
    /\ replays = <<>>
    /\ requests = 0
    /\ disk = "ok"
    /\ lock = None
    /\ readers = <<>>

\* the two relays on the conversations of an earlier run
RelaysNext ==
    \/ new_conversation
    \/ \E r \in RequestIds : Chat(r)
    \/ \E r \in RequestIds : Replay(r)

SpecRelays == InitStore /\ [][RelaysNext]_vars

\* the file system changes: it starts or stops taking writes of the file
disk_change ==
    /\ \E d \in DiskStates \ {disk} : disk' = d
    /\ UNCHANGED <<tasks, queue, workers, conversations, chats, replays, requests,
                   file, lock, readers>>

\* the operations of the conversation store that save (create_conversation,
\* add_assistant_message), with their callers, on a file system that may fail
StoreNext ==
    \/ upload_file(MaxRequests)
    \/ new_conversation
    \/ executor_dispatch
    \/ \E t \in TaskIds : Worker(t)
    \/ disk_change

SpecStore == InitStore /\ [][StoreNext]_vars

(***************************************************************************)
(* Properties                                                              *)
(***************************************************************************)
Terminal == {COMPLETED, FAILED}
Queued(t) == \E i \in 1..Len(queue) : queue[i].task_id = t

\* C1: a job's status only moves pending -> processing -> completed | failed,
\* and a record that is completed or failed is never changed again (so a
\* terminal status is reached at most once).
C1_StatusLifecycle ==
    [][\A t \in DOMAIN tasks :
          /\ t \in DOMAIN tasks'
          /\ <<tasks[t].status, tasks'[t].status>> \in
                {<<PENDING, PENDING>>, <<PENDING, PROCESSING>>,
                 <<PROCESSING, PROCESSING>>, <<PROCESSING, COMPLETED>>,
                 <<PROCESSING, FAILED>>, <<COMPLETED, COMPLETED>>,
                 <<FAILED, FAILED>>}
          /\ tasks[t].status \in Terminal => tasks'[t] = tasks[t]]_vars

\* one job completed and one failed while a third is still being run
C1_Witness ==
    /\ \E t \in DOMAIN tasks : tasks[t].status = COMPLETED
    /\ \E t \in DOMAIN tasks : tasks[t].status = FAILED
    /\ \E t \in DOMAIN tasks : tasks[t].status = PROCESSING /\ tasks[t].progress = 90

\* C2: completed <=> result set and error unset; failed <=> error set and
\* result unset; pending or processing => neither set.
C2_ResultErrorByStatus ==
    \A t \in DOMAIN tasks :
        /\ tasks[t].status = COMPLETED =>
              tasks[t].result # None /\ tasks[t].error = None
        /\ tasks[t].status = FAILED =>
              tasks[t].error # None /\ tasks[t].result = None
        /\ tasks[t].status \in {PENDING, PROCESSING} =>
              tasks[t].result = None /\ tasks[t].error = None

C2_Witness ==
    /\ \E t \in DOMAIN tasks : tasks[t].status = COMPLETED /\ tasks[t].result # None
    /\ \E t \in DOMAIN tasks : tasks[t].status = FAILED /\ tasks[t].error # None
    /\ \E t \in DOMAIN tasks : tasks[t].status = PENDING

\* C3: with more jobs than pool threads no job is dropped (a job that is not
\* terminal is queued or being run) or failed by saturation (a failed job
\* carries the error its model call raised), and under fair scheduling every
\* job created eventually is completed or failed: every run reaches a point
\* from which all jobs created are terminal.
C3_AllJobsTerminate ==
    /\ [](\A t \in DOMAIN tasks :
            /\ tasks[t].status \notin Terminal => Queued(t) \/ t \in DOMAIN workers
            /\ tasks[t].status = FAILED =>
                  \E err \in GatewayErrors : tasks[t].error = Some(err))
    /\ <>[](\A t \in DOMAIN tasks : tasks[t].status \in Terminal)

\* more jobs than pool threads, all of them terminal
C3_Witness ==
    /\ Cardinality(DOMAIN tasks) > max_workers
    /\ \A t \in DOMAIN tasks : tasks[t].status \in Terminal

\* C4: at most max_workers jobs are processing, and a submitted job no thread
\* has taken yet is returned by get_task as pending with progress 0.
C4_BoundedPool ==
    /\ Cardinality({t \in DOMAIN tasks : tasks[t].status = PROCESSING}) <= max_workers
    /\ \A i \in 1..Len(queue) :
          LET got == get_task(tasks, queue[i].task_id)
          IN  got # None /\ got[1].status = PENDING /\ got[1].progress = 0

\* the pool is saturated: max_workers jobs processing, one more queued
C4_Witness ==
    /\ Cardinality({t \in DOMAIN tasks : tasks[t].status = PROCESSING}) = max_workers
    /\ queue # <<>>

\* the text of the content chunks of a stream, concatenated in order
RECURSIVE concat_content(_)
concat_content(out) ==
    IF out = <<>> THEN <<>>
    ELSE (IF "content" \in DOMAIN Head(out) THEN Head(out).content ELSE <<>>)
         \o concat_content(Tail(out))

IsTerminalChunk(chunk) == "error" \in DOMAIN chunk \/ "done" \in DOMAIN chunk
Last(turns) == turns[Len(turns)]
ChatEmitsDone(r) ==
    r \in DOMAIN chats /\ chats[r].pc = "done" /\ chats'[r].pc = "closed"
ChatAppends(r) ==
    r \in DOMAIN chats /\ chats[r].pc = "append" /\ chats'[r].pc = "save"
ChatsOn(c) == {r \in DOMAIN chats : chats[r].conversation_id = c}

\* C5 as claimed: when a live-relay stream emits done, its content chunks
\* concatenate to the accumulated response and the last turn of its
\* conversation is the assistant turn with that text.
C5_LastTurnAtDone ==
    [][\A r \in DOMAIN chats :
          ChatEmitsDone(r) =>
            LET turns == conversations'[chats[r].conversation_id]
                text == concat_content(chats'[r].out)
            IN  /\ text = chats'[r].full_response
                /\ turns # <<>> /\ Last(turns) = assistant_turn(text)]_vars

\* C5 amended: the content chunks concatenate to the accumulated response; the
\* assistant turn with that text is the last turn of the conversation when the
\* generator appends it, and is in the conversation when done is emitted: as
\* its last turn when no other chat request and no analysis job names the
\* conversation (a concurrent request on it may have appended after it).
C5_AssistantTurnAtDone ==
    [][\A r \in DOMAIN chats :
          /\ ChatAppends(r) =>
                Last(conversations'[chats[r].conversation_id])
                    = assistant_turn(concat_content(chats[r].out))
          /\ ChatEmitsDone(r) =>
                LET turns == conversations'[chats[r].conversation_id]
                    text == concat_content(chats'[r].out)
                IN  /\ text = chats'[r].full_response
                    /\ Last(chats'[r].out) = done_chunk
                    /\ \E i \in 1..Len(turns) : turns[i] = assistant_turn(text)
                    /\ (/\ ChatsOn(chats[r].conversation_id) = {r}
                        /\ \A t \in DOMAIN tasks :
                              tasks[t].conversation_id # chats[r].conversation_id)
                          => Last(turns) = assistant_turn(text)]_vars

\* a stream of two content chunks and done, whose turn closes the conversation
C5_Witness ==
    \E r \in DOMAIN chats :
        /\ chats[r].pc = "closed"
        /\ chats[r].out = <<content_chunk(<<"a">>), content_chunk(<<"b">>), done_chunk>>
        /\ Last(conversations[chats[r].conversation_id])
              = assistant_turn(<<"a", "b">>)

\* the generators that have ended, by return or by an exception
EndedStreams ==
    {chats[r].out : r \in {x \in DOMAIN chats : chats[x].pc \in {"closed", "raised"}}}
    \cup {replays[r].out : r \in {x \in DOMAIN replays : replays[x].pc = "closed"}}
AllStreams ==
    {chats[r].out : r \in DOMAIN chats} \cup {replays[r].out : r \in DOMAIN replays}

\* C6: no chunk follows a terminal chunk, and every stream that has ended,
\* also by a failure of the model's stream part-way, ends with one terminal chunk.
C6_OneTerminalChunk ==
    /\ \A out \in AllStreams :
          \A i \in 1..Len(out) : IsTerminalChunk(out[i]) => i = Len(out)
    /\ \A out \in EndedStreams : out # <<>> /\ IsTerminalChunk(Last(out))

NoAssistantTurn(turns) == \A i \in 1..Len(turns) : turns[i].role # "assistant"
ReplayStep(r) == r \in DOMAIN replays /\ replays'[r] # replays[r]

\* C7: a replay of an absent conversation, of one without turns, and of one
\* without an assistant turn each end with exactly one error chunk and nothing
\* else (a generator that has ended emits nothing more), and the three
\* messages differ.
C7_ReplayErrors ==
    /\ [](Cardinality({ErrConversationAbsent, ErrNoResult, ErrNoAssistant}) = 3)
    /\ [][\A r \in DOMAIN replays :
            replays[r].pc = "closed" => replays'[r] = replays[r]]_vars
    /\ [][\A r \in DOMAIN replays' :
            LET c == replays'[r].conversation_id
                ends_with(message) ==
                    /\ replays'[r].pc = "closed"
                    /\ replays'[r].out = <<error_chunk(message)>>
            IN  /\ r \notin DOMAIN replays /\ c \notin DOMAIN conversations
                      => ends_with(ErrConversationAbsent)
                /\ ReplayStep(r) /\ replays[r].pc = "messages"
                      /\ conversations[c] = <<>>
                      => ends_with(ErrNoResult)
                /\ ReplayStep(r) /\ replays[r].pc = "scan"
                      /\ NoAssistantTurn(conversations[c])
                      => ends_with(ErrNoAssistant)]_vars

\* a replay that found turns but no assistant turn
C7_Witness ==
    \E r \in DOMAIN replays :
        /\ replays[r].pc = "closed"
        /\ replays[r].out = <<error_chunk(ErrNoAssistant)>>
        /\ conversations[replays[r].conversation_id] # <<>>

IsPrefix(s, t) == Len(s) <= Len(t) /\ SubSeq(t, 1, Len(s)) = s
CreatesConversation ==
    requests' = requests + 1 /\ chats' = chats /\ replays' = replays

\* C8: a conversation is empty when create_conversation has made it, and every
\* step leaves each conversation as it is or appends one turn at its end: no
\* turn is changed or removed, and a step that appends adds the turn of the
\* operation that takes it.
C8_AppendOnly ==
    [][/\ \A c \in DOMAIN conversations :
            /\ c \in DOMAIN conversations'
            /\ IsPrefix(conversations[c], conversations'[c])
            /\ Len(conversations'[c]) <= Len(conversations[c]) + 1
       /\ CreatesConversation =>
            \A c \in DOMAIN conversations' \ DOMAIN conversations :
                conversations'[c] = <<>>
       /\ Cardinality({c \in DOMAIN conversations' :
                         c \notin DOMAIN conversations
                         \/ conversations'[c] # conversations[c]}) <= 1
       /\ \A r \in DOMAIN chats :
            ChatAppends(r) =>
              conversations'[chats[r].conversation_id] =
                Append(conversations[chats[r].conversation_id],
                       assistant_turn(chats[r].full_response))
       /\ \A r \in DOMAIN chats' \ DOMAIN chats :
            LET c == chats'[r].conversation_id
                old == IF c \in DOMAIN conversations THEN conversations[c] ELSE <<>>
            IN  \E m \in UserMessages : conversations'[c] = Append(old, user_turn(m))
       /\ \A t \in DOMAIN workers :
            LET c == workers[t].conversation_id
            IN  /\ workers[t].pc = "append_user" /\ workers'[t].pc = "progress50" =>
                      conversations'[c] = Append(conversations[c],
                          user_turn(analysis_request(workers[t].file_content)))
                /\ workers[t].pc = "add_assistant" /\ workers'[t].pc = "save_assistant" =>
                      conversations'[c] = Append(conversations[c],
                          assistant_turn(workers[t].ai_response[1]))]_vars

\* a conversation written by the analysis job and by a chat request in turn
C8_Witness ==
    \E c \in DOMAIN conversations :
        /\ Len(conversations[c]) = 4
        /\ conversations[c][1].role = "user" /\ conversations[c][2].role = "user"
        /\ conversations[c][3].role = "assistant"
        /\ conversations[c][4].role = "assistant"

BecomesCompleted(t) ==
    t \in DOMAIN tasks /\ tasks[t].status # COMPLETED /\ tasks'[t].status = COMPLETED
UploadCreatesJob(t) == t \in DOMAIN tasks' /\ t \notin DOMAIN tasks

\* C9 as claimed: when the job of an upload becomes completed, its conversation
\* consists of the user turn with the analysis request and the assistant turn
\* with the model's reply.
C9_ConversationIsRequestAndReply ==
    [][\A t \in DOMAIN tasks :
          BecomesCompleted(t) =>
            conversations'[tasks[t].conversation_id] =
              <<user_turn(analysis_request(workers[t].file_content)),
                assistant_turn(tasks'[t].result[1].ai_response)>>]_vars

\* C9 amended: an upload with text creates a new, empty conversation and a
\* pending job; once its model call has returned a reply the job eventually is
\* completed with a result (the thread that holds a reply ends only by the
\* completed update, and every run reaches a point from which no thread holds
\* one); and when the job becomes completed its conversation
\* holds the user turn with the analysis request and, after it, the assistant
\* turn with the reply of the result: these two turns alone when no chat
\* request names the conversation, with the turns of such requests among them
\* otherwise.
C9_UploadIsAnalysed ==
    /\ [][\A t \in TaskIds :
            UploadCreatesJob(t) =>
              LET c == tasks'[t].conversation_id
              IN  /\ tasks'[t].status = PENDING
                  /\ c \notin DOMAIN conversations
                  /\ c \in DOMAIN conversations' /\ conversations'[c] = <<>>]_vars
    /\ [][\A t \in DOMAIN tasks :
            BecomesCompleted(t) =>
              LET turns == conversations'[tasks[t].conversation_id]
                  request == user_turn(analysis_request(workers[t].file_content))
                  reply == assistant_turn(tasks'[t].result[1].ai_response)
              IN  /\ tasks'[t].result # None
                  /\ tasks'[t].result[1].ai_response = workers[t].ai_response[1]
                  /\ \E i, j \in 1..Len(turns) :
                        i < j /\ turns[i] = request /\ turns[j] = reply
                  /\ ChatsOn(tasks[t].conversation_id) = {}
                        => turns = <<request, reply>>]_vars
    /\ [][\A t \in DOMAIN workers :
            workers[t].ai_response # None =>
              IF t \in DOMAIN workers'
              THEN workers'[t].ai_response = workers[t].ai_response
              ELSE tasks'[t].status = COMPLETED /\ tasks'[t].result # None]_vars
    /\ <>[](\A t \in DOMAIN workers : workers[t].ai_response = None)

\* a completed job whose conversation is the request and the reply
C9_Witness ==
    \E t \in DOMAIN tasks :
        /\ tasks[t].status = COMPLETED
        /\ conversations[tasks[t].conversation_id] =
              <<user_turn(analysis_request(<<"h", "i">>)),
                assistant_turn(tasks[t].result[1].ai_response)>>

\* C10: create_task with an id that is in the job map leaves the record of
\* that id as it is (the call fails with DuplicateId).
C10_DuplicateIdRejected ==
    [][\A t \in DOMAIN tasks : create_task_existing(t) => tasks'[t] = tasks[t]]_vars
HoldsTask(r) == r \in DOMAIN readers /\ readers[r].pc \in {"copy", "value"}

\* C11: the value get_task returned to a caller does not change while the
\* caller holds it: no step changes the record a get_task_status handler has
\* got and is still reading.
C11_SnapshotImmutable ==
    [][\A r \in DOMAIN readers :
          HoldsTask(r) => tasks'[readers[r].task_id] = tasks[readers[r].task_id]]_vars
WorkerMoves(t, from, to) ==
    t \in DOMAIN workers /\ workers[t].pc = from
    /\ t \in DOMAIN workers' /\ workers'[t].pc = to

\* an operation of the conversation store that changes a conversation returns:
\* create_conversation or the locked part of start_conversation (a new id, a
\* new chat generator), the analysis job's append of the user turn, and
\* add_assistant_message
StoreOperationReturns ==
    \/ DOMAIN conversations' # DOMAIN conversations
    \/ DOMAIN chats' # DOMAIN chats
    \/ \E t \in DOMAIN workers : WorkerMoves(t, "append_user", "progress50")
    \/ \E t \in DOMAIN workers : WorkerMoves(t, "save_assistant", "return")

\* C12: while writes of the file succeed, the file holds the conversation map
\* as it is in memory whenever an operation that changes a conversation has
\* returned; so the user turn is in the file before the model is called.
C12_WriteThrough ==
    [][disk = "ok" /\ StoreOperationReturns
          => file' = json_file(conversations')]_vars

\* C13: a thread changes the conversation map or writes the file only while
\* it holds the lock: while some thread holds the lock (it is between the
\* append and the save of add_assistant_message), the only step that changes
\* the map or the file is that thread's, which then releases the lock.
C13_MutationsUnderLock ==
    [][lock # None /\ (conversations' # conversations \/ file' # file)
          => lock' = None]_vars
\* C14: the step in which a job's work body has failed sets that job to failed
\* and changes no other record; the queue and the other threads are left as
\* they are and the failing thread is free again; and under fair scheduling
\* every run, whatever the number of failed jobs, reaches a point from which
\* no job is queued or being run.
C14_FailureContained ==
    /\ [][\A t \in DOMAIN workers :
            workers[t].pc = "except" /\ tasks'[t] # tasks[t] =>
              /\ tasks'[t].status = FAILED /\ tasks'[t].error = workers[t].e
              /\ \A u \in DOMAIN tasks \ {t} : tasks'[u] = tasks[u]
              /\ queue' = queue
              /\ DOMAIN workers' = DOMAIN workers \ {t}
              /\ \A u \in DOMAIN workers' : workers'[u] = workers[u]]_vars
    /\ <>[](queue = <<>> /\ workers = <<>>)

\* as many failed jobs as the pool has threads, and the job queued behind
\* them completed
C14_Witness ==
    /\ Cardinality(DOMAIN tasks) = max_workers + 1
    /\ \A t \in 1..max_workers : tasks[t].status = FAILED
    /\ tasks[max_workers + 1].status = COMPLETED
    /\ queue = <<>> /\ workers = <<>>

\* C15: progress is an integer in 0..100, and a step that leaves a job
\* processing, or makes it processing, does not lower its progress.
C15_ProgressMonotone ==
    /\ [](\A t \in DOMAIN tasks : tasks[t].progress \in 0..100)
    /\ [][\A t \in DOMAIN tasks :
            tasks'[t].status = PROCESSING => tasks'[t].progress >= tasks[t].progress]_vars

\* one job at the first and one at the last progress update of a run
C15_Witness ==
    /\ \E t \in DOMAIN tasks : tasks[t].status = PROCESSING /\ tasks[t].progress = 10
    /\ \E t \in DOMAIN tasks : tasks[t].status = PROCESSING /\ tasks[t].progress = 90
\* what a reader sees of a job: the record get_task returns, and the record
\* in a response of get_task_status
ObservedRecords ==
    {tasks[t] : t \in DOMAIN tasks}
    \cup {readers[r].response[1] :
            r \in {x \in DOMAIN readers :
                      /\ readers[x].response # None
                      /\ "status" \in DOMAIN readers[x].response[1]}}

\* C16: a reader sees completed only with progress 100 and the result, failed
\* only with progress 0 and the error, and processing never with progress 0.
C16_NoPartialWrite ==
    \A rec \in ObservedRecords :
        /\ rec.status = COMPLETED => rec.progress = 100 /\ rec.result # None
        /\ rec.status = FAILED => rec.progress = 0 /\ rec.error # None
        /\ rec.status = PROCESSING => rec.progress # 0
IsContentChunk(chunk) == "content" \in DOMAIN chunk
IndexOfLastAssistant(turns) ==
    CHOOSE i \in 1..Len(turns) :
        /\ turns[i].role = "assistant"
        /\ \A j \in (i + 1)..Len(turns) : turns[j].role # "assistant"

\* C17: the replay of a conversation with an assistant turn takes the text of
\* the assistant turn no assistant turn follows, whatever user turns follow it;
\* it emits content chunks of exactly chunk_size characters, the last one of
\* 1 to chunk_size, whose text in order is the beginning of that text, and
\* ends with one done chunk when the chunks make up the whole text: an empty
\* text gives the done chunk alone.
C17_ReplayChunks ==
    /\ [][\A r \in DOMAIN replays :
            LET turns == conversations[replays[r].conversation_id]
            IN  ReplayStep(r) /\ replays[r].pc = "scan" /\ ~NoAssistantTurn(turns) =>
                  /\ replays'[r].pc = "emit" /\ replays'[r].out = <<>>
                  /\ replays'[r].content = turns[IndexOfLastAssistant(turns)].content]_vars
    /\ [](\A r \in DOMAIN replays :
            LET out == replays[r].out
                content == replays[r].content
            IN  /\ replays[r].pc = "emit" =>
                      /\ \A k \in 1..Len(out) :
                            /\ IsContentChunk(out[k])
                            /\ k < Len(out) => Len(out[k].content) = chunk_size
                            /\ Len(out[k].content) \in 1..chunk_size
                      /\ IsPrefix(concat_content(out), content)
                /\ replays[r].pc = "closed" /\ out # <<>> /\ Last(out) = done_chunk =>
                      LET n == Len(out) - 1
                      IN  /\ \A k \in 1..n :
                                /\ IsContentChunk(out[k])
                                /\ k < n => Len(out[k].content) = chunk_size
                                /\ Len(out[k].content) \in 1..chunk_size
                          /\ concat_content(out) = content
                          /\ content = <<>> => out = <<done_chunk>>)

\* the replay of a stored reply of chunk_size + 1 characters that a later user
\* turn follows: a full chunk, a chunk of one character, done
C17_Witness ==
    \E r \in DOMAIN replays :
        /\ replays[r].pc = "closed"
        /\ replays[r].out = <<content_chunk(SubSeq(LongText, 1, chunk_size)),
                              content_chunk(<<"y">>), done_chunk>>
        /\ Last(conversations[replays[r].conversation_id]).role = "user"
\* C18: while the file system does not take the write, create_conversation
\* still adds the empty conversation and its handler goes on, and the save
\* after the append of add_assistant_message leaves the turn in the
\* conversation in memory and returns without raising; and a server that
\* starts on an absent or corrupt file starts with an empty conversation map.
C18_PersistenceFailureNonFatal ==
    /\ [](requests = 0 =>
            /\ ~file.exists => conversations = <<>>
            /\ file = corrupt_file => conversations = <<>>)
    /\ [][disk # "ok" =>
            /\ requests' # requests =>
                  \E c \in DOMAIN conversations' \ DOMAIN conversations :
                      /\ conversations' = create_conversation(conversations, c)
                      /\ requests' = requests + 1
            /\ \A t \in DOMAIN workers :
                  workers[t].pc = "save_assistant" /\ workers'[t] # workers[t] =>
                      /\ WorkerMoves(t, "save_assistant", "return")
                      /\ workers'[t].e = None
                      /\ conversations' = conversations
                      /\ \E i \in 1..Len(conversations[workers[t].conversation_id]) :
                            conversations[workers[t].conversation_id][i]
                                = assistant_turn(workers[t].ai_response[1])]_vars

\* add_assistant_message has returned although its write left a truncated
\* file: the reply is in the conversation in memory only
C18_Witness ==
    /\ disk = "full" /\ file = corrupt_file
    /\ \E t \in DOMAIN workers :
          /\ workers[t].pc = "return"
          /\ Last(conversations[workers[t].conversation_id])
                = assistant_turn(workers[t].ai_response[1])
Holds(turns, turn) == \E i \in 1..Len(turns) : turns[i] = turn
TasksOn(c) == {t \in DOMAIN tasks : tasks[t].conversation_id = c}

\* C19: the conversation of a completed job holds an assistant turn with the
\* ai_response of the job's result, and no step of a replay of that
\* conversation taken while the job is completed emits an error chunk.
C19_AssistantTurnBeforeCompleted ==
    /\ [](\A t \in DOMAIN tasks :
            tasks[t].status = COMPLETED =>
              Holds(conversations[tasks[t].conversation_id],
                    assistant_turn(tasks[t].result[1].ai_response)))
    /\ [][\A r \in DOMAIN replays' :
            /\ r \notin DOMAIN replays \/ replays'[r] # replays[r]
            /\ \E t \in TasksOn(replays'[r].conversation_id) :
                  tasks[t].status = COMPLETED
            => \A k \in 1..Len(replays'[r].out) :
                  "error" \notin DOMAIN replays'[r].out[k]]_vars

\* the replay of the conversation of a completed job gives the reply of its result
C19_Witness ==
    \E r \in DOMAIN replays, t \in DOMAIN tasks :
        /\ tasks[t].status = COMPLETED
        /\ replays[r].conversation_id = tasks[t].conversation_id
        /\ replays[r].pc = "closed"
        /\ replays[r].out = <<content_chunk(tasks[t].result[1].ai_response), done_chunk>>

FailsByModelCall(t) ==
    /\ t \in DOMAIN workers /\ workers[t].pc = "except"
    /\ \E err \in GatewayErrors : workers[t].e = Some(err)
    /\ tasks'[t].status = FAILED /\ tasks[t].status # FAILED
ChatCallFails(r) ==
    r \in DOMAIN chats /\ chats[r].pc = "call" /\ chats'[r].pc = "closed"

\* C20 as claimed: when the model call of a job fails, the job's conversation
\* holds the user turn and no assistant turn; when the gateway call of a chat
\* fails, its stream is one error chunk and the last turn of its conversation
\* is the user turn.
C20_OnlyUserTurnAfterFailure ==
    [][/\ \A t \in DOMAIN tasks :
            FailsByModelCall(t) =>
              LET turns == conversations'[tasks[t].conversation_id]
              IN  /\ Holds(turns, user_turn(analysis_request(workers[t].file_content)))
                  /\ NoAssistantTurn(turns)
       /\ \A r \in DOMAIN chats :
            ChatCallFails(r) =>
              LET turns == conversations'[chats[r].conversation_id]
              IN  /\ \E err \in GatewayErrors :
                        chats'[r].out = <<error_chunk(call_failed(err))>>
                  /\ \E m \in UserMessages : Last(turns) = user_turn(m)]_vars

\* C20 amended: no failure of a model call removes a turn. When the model
\* call of a job fails, the job's conversation holds the user turn with the
\* analysis request: that turn alone when no chat request names the
\* conversation, and a replay then ends with the no-assistant error. When the
\* gateway call of a chat fails, its stream is one error chunk and its
\* conversation holds the user turn: as last turn when no other chat request
\* and no job names the conversation.
C20_UserTurnNotRolledBack ==
    [][/\ \A t \in DOMAIN tasks :
            FailsByModelCall(t) =>
              LET c == tasks[t].conversation_id
                  request == user_turn(analysis_request(workers[t].file_content))
              IN  /\ conversations' = conversations
                  /\ Holds(conversations'[c], request)
                  /\ ChatsOn(c) = {} => conversations'[c] = <<request>>
       /\ \A r \in DOMAIN replays :
            LET c == replays[r].conversation_id
            IN  /\ ReplayStep(r) /\ replays[r].pc = "scan" /\ ChatsOn(c) = {}
                /\ \E t \in TasksOn(c) : tasks[t].status = FAILED
                => /\ replays'[r].pc = "closed"
                   /\ replays'[r].out = <<error_chunk(ErrNoAssistant)>>
       /\ \A r \in DOMAIN chats :
            ChatCallFails(r) =>
              LET c == chats[r].conversation_id
              IN  /\ \E err \in GatewayErrors :
                        chats'[r].out = <<error_chunk(call_failed(err))>>
                  /\ conversations' = conversations
                  /\ \E m \in UserMessages :
                        /\ Holds(conversations'[c], user_turn(m))
                        /\ ChatsOn(c) = {r} /\ TasksOn(c) = {}
                              => Last(conversations'[c]) = user_turn(m)]_vars

\* a failed job whose conversation is the analysis request alone, replayed
\* with the no-assistant error
C20_Witness ==
    \E r \in DOMAIN replays, t \in DOMAIN tasks :
        /\ tasks[t].status = FAILED
        /\ conversations[tasks[t].conversation_id]
              = <<user_turn(analysis_request(<<"h", "i">>))>>
        /\ replays[r].conversation_id = tasks[t].conversation_id
        /\ replays[r].out = <<error_chunk(ErrNoAssistant)>>
====
